---------------------------- MODULE Spec2Model ----------------------------
(***************************************************************************)
(* Model of canalyzer.ino: setup() initialises the MCP2515 CAN controller  *)
(* and prints two start-up lines; loop() polls the controller and prints   *)
(* every received frame as "ID: <hex> Data: <hex bytes>".                  *)
(*                                                                         *)
(* The serial output is the sequence of characters written so far (one     *)
(* one-character string per element; println ends a line with CR LF).      *)
(* The CAN controller is the environment: frames on the bus arrive in its  *)
(* receive buffer at any moment.                                           *)
(***************************************************************************)
EXTENDS Integers, Sequences, FiniteSets, TLC

(***************************************************************************)
(* Bounds of the model                                                     *)
(***************************************************************************)
\* number of frames the bus carries in one behaviour of Spec
MaxArrivals == 2
\* number of frames the controller buffers before it drops arrivals
BufCap == 2

(***************************************************************************)
(* Program constants                                                       *)
(***************************************************************************)
\* tCAN.data holds 8 bytes
MaxPayload == 8
\* Serial.print(message.id, HEX)
HEX == 16
\* the field width of "%02X"
PadWidth == 2


(***************************************************************************)
(* String literals of the sketch, as character sequences                   *)
(***************************************************************************)
StrInitOk == <<"C", "A", "N", " ", "I", "n", "i", "t", " ", "o", "k">>
StrInitFail == <<"C", "a", "n", "'", "t", " ", "i", "n", "i", "t", " ", "C", "A", "N">>
StrBanner == <<"C", "A", "N", " ", "R", "e", "a", "d", " ", "-", " ", "T", "e", "s", "t", " ", "r", "e", "c", "e", "i", "v", "i", "n", "g", " ", "o", "f", " ", "C", "A", "N", " ", "B", "u", "s", " ", "m", "e", "s", "s", "a", "g", "e">>
StrIdLabel == <<"I", "D", ":", " ">>
StrSpace == <<" ">>
StrDataLabel == <<"D", "a", "t", "a", ":", " ">>
StrEmpty == <<>>
\* Print::println() writes "\r\n" after its argument
CRLF == <<"\r", "\n">>

Println(s) == s \o CRLF

(***************************************************************************)
(* Number formatting                                                       *)
(***************************************************************************)
DecChars == <<"0", "1", "2", "3", "4", "5", "6", "7", "8", "9">>
UpperChars == <<"A", "B", "C", "D", "E", "F">>

\* c < 10 ? c + '0' : c + 'A' - 10
DigitChar(c) == IF c < 10 THEN DecChars[c + 1] ELSE UpperChars[c - 10 + 1]

\* Print::printNumber: digits are produced least significant first and
\* stored from the end of the buffer; the do-while runs at least once.
RECURSIVE PrintNumberLoop(_, _, _)
PrintNumberLoop(n, base, str) ==
    LET c == n % base
        q == n \div base
        s == <<DigitChar(c)>> \o str
    IN  IF q # 0 THEN PrintNumberLoop(q, base, s) ELSE s

PrintNumber_padded(n, base) ==
    LET s == PrintNumberLoop(n, base, <<>>)
    IN  IF Len(s) < 3 THEN [k \in 1..(3 - Len(s)) |-> "0"] \o s ELSE s
PrintNumber(n, base) == PrintNumberLoop(n, base, <<>>)

\* the "%X" conversion: the value in upper-case hexadecimal, at least one digit
RECURSIVE ConvX(_)
ConvX(v) == IF v < 16 THEN <<DigitChar(v)>> ELSE ConvX(v \div 16) \o <<DigitChar(v % 16)>>

\* the "0<width>" flag: left-pad with '0' up to the field width
RECURSIVE ZeroPad(_, _)
ZeroPad(s, w) == IF Len(s) >= w THEN s ELSE ZeroPad(<<"0">> \o s, w)

\* sprintf(data, "%02X", b)
Sprintf02X_nopad(b) == ConvX(b)
Sprintf02X(b) == ZeroPad(ConvX(b), PadWidth)

(***************************************************************************)
(* Frames                                                                  *)
(***************************************************************************)
\* a frame on the bus: identifier, data length code, payload in wire order
Frame(id, len, pat) == [id |-> id, length |-> len, data |-> SubSeq(pat, 1, len)]

\* identifiers: 0, 0xA, 0x1A0, 0x7DF
FmtIds == {0, 10, 416, 2015}
Pattern(a, b) == [k \in 1..MaxPayload |-> (a + b * (k - 1)) % 256]
\* payload patterns: the OBD request 02 01 0C ..., and arithmetic progressions
\* starting at 0x00, 0x05, 0xAB, 0xF8 with strides 0, 1, 0x11, 0x5F
FmtPatterns ==
    {<<2, 1, 12, 0, 255, 165, 90, 16>>}
        \cup {Pattern(a, b) : a \in {0, 5, 171, 248}, b \in {0, 1, 17, 95}}
FmtFrames == {Frame(id, len, pat) : id \in FmtIds, len \in 0..MaxPayload, pat \in FmtPatterns}

BusIds == {10, 2015}
BusFrames ==
    {Frame(id, len, <<2, 1, 12, 0, 255, 165, 90, 16>>) : id \in BusIds, len \in {0, 3}}

\* the tCAN local of loop() before anything is stored in it
JunkMessage == [id |-> 48879, length |-> 5, data |-> [k \in 1..MaxPayload |-> 238]]

\* mcp2515_get_message(&message): id, length and data[0..length-1] are
\* stored; the rest of data[] keeps what it held
StoreFrame_keepId(m, f) ==
    [id |-> m.id, length |-> f.length,
     data |-> [k \in 1..MaxPayload |-> IF k <= f.length THEN f.data[k] ELSE m.data[k]]]
StoreFrame(m, f) ==
    [id |-> f.id, length |-> f.length,
     data |-> [k \in 1..MaxPayload |-> IF k <= f.length THEN f.data[k] ELSE m.data[k]]]

\* bytes an out-of-bounds read of data[] may produce
WildBytes == {0, 255}
\* message.data[i]
ReadData(m, idx) == IF idx \in 0..(MaxPayload - 1) THEN {m.data[idx + 1]} ELSE WildBytes

(***************************************************************************)
(* Control flow of loop()                                                  *)
(***************************************************************************)
\* if (mcp2515_check_message())
AfterCheck_always(r) == "get"
AfterCheck(r) == IF r THEN "get" ELSE "return"

\* if (mcp2515_get_message(&message))
AfterGet_always(ok) == "print_id_label"
AfterGet(ok) == IF ok THEN "print_id_label" ELSE "return"

\* i < message.header.length
ForCond_inclusive(idx, len) == idx <= len
ForCond(idx, len) == idx < len

\* after Serial.println("") the two ifs end and loop() returns
AfterPrintln_drain == "check"
AfterPrintln == "return"

\* the start-up line chosen by the result of Canbus.init
InitLine_swapped(ok) == IF ok THEN StrInitFail ELSE StrInitOk
InitLine(ok) == IF ok THEN StrInitOk ELSE StrInitFail

\* what the controller answers to mcp2515_check_message: true when a frame
\* is buffered; with an empty buffer the answer may still be true (the
\* frame is no longer there when it is fetched)
CheckAnswers(buf) == IF buf # <<>> THEN {TRUE} ELSE {FALSE, TRUE}

VARIABLES
    pc,            \* position of the program
    initResult,    \* "none" before Canbus.init, then "ok" or "fail"
    rxbuf,         \* frames buffered by the controller
    bus,           \* frames still to arrive from the bus
    pending,       \* value of mcp2515_check_message() in this iteration
    message,       \* tCAN message
    i,             \* int i of the for loop
    data,          \* char data[3], without the terminating NUL
    out,           \* characters written to Serial
    deq,           \* history: frames returned by mcp2515_get_message
    itChecks,      \* history: calls of mcp2515_check_message in this iteration
    itGets,        \* history: calls of mcp2515_get_message in this iteration
    itFrames,      \* history: frames returned in this iteration
    outAtEnter,    \* history: out when this iteration began
    bufAtEnter,    \* history: rxbuf when this iteration began
    prevBuf,       \* history: rxbuf when the previous iteration began
    prevFrames,    \* history: frames returned in the previous iteration
    reads          \* history: indices of data[] read in this iteration

vars == <<pc, initResult, rxbuf, bus, pending, message, i, data, out, deq,
          itChecks, itGets, itFrames, outAtEnter, bufAtEnter, prevBuf,
          prevFrames, reads>>

hist == <<deq, itChecks, itGets, itFrames, outAtEnter, bufAtEnter, prevBuf,
          prevFrames, reads>>

RECURSIVE SeqsUpTo(_, _)
SeqsUpTo(S, n) ==
    IF n = 0 THEN {<<>>}
    ELSE LET T == SeqsUpTo(S, n - 1)
         IN  T \cup {Append(t, x) : t \in {u \in T : Len(u) = n - 1}, x \in S}

InitCommon ==
    /\ pc = "init"
    /\ initResult = "none"
    /\ rxbuf = <<>>
    /\ pending = FALSE
    /\ message = JunkMessage
    /\ i = 0
    /\ data = <<>>
    /\ out = <<>>
    /\ deq = <<>>
    /\ itChecks = 0
    /\ itGets = 0
    /\ itFrames = <<>>
    /\ outAtEnter = <<>>
    /\ bufAtEnter = <<>>
    /\ prevBuf = <<>>
    /\ prevFrames = <<>>
    /\ reads = <<>>

Init == InitCommon /\ bus \in SeqsUpTo(BusFrames, MaxArrivals)

InitFmt == InitCommon /\ bus \in {<<f>> : f \in FmtFrames}

(***************************************************************************)
(* Environment: a frame arrives from the bus                               *)
(***************************************************************************)
Arrive ==
    /\ bus # <<>>
    /\ rxbuf' = IF Len(rxbuf) < BufCap THEN Append(rxbuf, Head(bus)) ELSE rxbuf
    /\ bus' = Tail(bus)
    /\ UNCHANGED <<pc, initResult, pending, message, i, data, out>>
    /\ UNCHANGED hist

(***************************************************************************)
(* setup()                                                                 *)
(***************************************************************************)
\* Canbus.init(CANSPEED_500)
CanbusInit ==
    /\ pc = "init"
    /\ \E ok \in BOOLEAN : initResult' = IF ok THEN "ok" ELSE "fail"
    /\ pc' = "report"
    /\ UNCHANGED <<rxbuf, bus, pending, message, i, data, out>>
    /\ UNCHANGED hist

\* Serial.println("CAN Init ok") or Serial.println("Can't init CAN")
SetupReport ==
    /\ pc = "report"
    /\ out' = out \o Println(InitLine(initResult = "ok"))
    /\ pc' = "banner"
    /\ UNCHANGED <<initResult, rxbuf, bus, pending, message, i, data>>
    /\ UNCHANGED hist

\* Serial.println("CAN Read - Test receiving of CAN Bus message")
SetupBanner ==
    /\ pc = "banner"
    /\ out' = out \o Println(StrBanner)
    /\ pc' = "delay"
    /\ UNCHANGED <<initResult, rxbuf, bus, pending, message, i, data>>
    /\ UNCHANGED hist

\* delay(1000); setup returns and loop() is called from now on
SetupDelay ==
    /\ pc = "delay"
    /\ pc' = "loop"
    /\ UNCHANGED <<initResult, rxbuf, bus, pending, message, i, data, out>>
    /\ UNCHANGED hist

(***************************************************************************)
(* loop()                                                                  *)
(***************************************************************************)
\* loop() is entered: tCAN message is declared without an initialiser, so
\* it holds what the stack holds (the previous iteration's value, or junk)
LoopEnter ==
    /\ pc = "loop"
    /\ message' \in {message, JunkMessage}
    /\ pending' = FALSE
    /\ pc' = "check"
    /\ itChecks' = 0
    /\ itGets' = 0
    /\ itFrames' = <<>>
    /\ outAtEnter' = out
    /\ bufAtEnter' = rxbuf
    /\ prevBuf' = bufAtEnter
    /\ prevFrames' = itFrames
    /\ reads' = <<>>
    /\ UNCHANGED <<initResult, rxbuf, bus, i, data, out, deq>>

\* mcp2515_check_message()
CheckMessage ==
    /\ pc = "check"
    /\ \E r \in CheckAnswers(rxbuf) :
          /\ pending' = r
          /\ pc' = AfterCheck(r)
    /\ itChecks' = itChecks + 1
    /\ UNCHANGED <<initResult, rxbuf, bus, message, i, data, out>>
    /\ UNCHANGED <<deq, itGets, itFrames, outAtEnter, bufAtEnter, prevBuf, prevFrames, reads>>

\* mcp2515_get_message(&message)
GetMessage ==
    /\ pc = "get"
    /\ itGets' = itGets + 1
    /\ IF rxbuf # <<>>
       THEN /\ message' = StoreFrame(message, Head(rxbuf))
            /\ rxbuf' = Tail(rxbuf)
            /\ deq' = Append(deq, Head(rxbuf))
            /\ itFrames' = Append(itFrames, Head(rxbuf))
       ELSE UNCHANGED <<message, rxbuf, deq, itFrames>>
    /\ pc' = AfterGet(rxbuf # <<>>)
    /\ UNCHANGED <<initResult, bus, pending, i, data, out>>
    /\ UNCHANGED <<itChecks, outAtEnter, bufAtEnter, prevBuf, prevFrames, reads>>

\* Serial.print("ID: ")
PrintIdLabel ==
    /\ pc = "print_id_label"
    /\ out' = out \o StrIdLabel
    /\ pc' = "print_id"
    /\ UNCHANGED <<initResult, rxbuf, bus, pending, message, i, data>>
    /\ UNCHANGED hist

\* Serial.print(message.id, HEX)
PrintId ==
    /\ pc = "print_id"
    /\ out' = out \o PrintNumber(message.id, HEX)
    /\ pc' = "print_space"
    /\ UNCHANGED <<initResult, rxbuf, bus, pending, message, i, data>>
    /\ UNCHANGED hist

\* Serial.print(" ")
PrintSpace ==
    /\ pc = "print_space"
    /\ out' = out \o StrSpace
    /\ pc' = "print_data_label"
    /\ UNCHANGED <<initResult, rxbuf, bus, pending, message, i, data>>
    /\ UNCHANGED hist

\* Serial.print("Data: "); int i = 0
PrintDataLabel ==
    /\ pc = "print_data_label"
    /\ out' = out \o StrDataLabel
    /\ i' = 0
    /\ pc' = "for_test"
    /\ UNCHANGED <<initResult, rxbuf, bus, pending, message, data>>
    /\ UNCHANGED hist

\* i < message.header.length
ForTest ==
    /\ pc = "for_test"
    /\ pc' = IF ForCond(i, message.length) THEN "sprintf" ELSE "println"
    /\ UNCHANGED <<initResult, rxbuf, bus, pending, message, i, data, out>>
    /\ UNCHANGED hist

\* char data[3]; sprintf(data, "%02X", message.data[i])
Sprintf ==
    /\ pc = "sprintf"
    /\ \E b \in ReadData(message, i) : data' = Sprintf02X(b)
    /\ reads' = Append(reads, i)
    /\ pc' = "print_data"
    /\ UNCHANGED <<initResult, rxbuf, bus, pending, message, i, out>>
    /\ UNCHANGED <<deq, itChecks, itGets, itFrames, outAtEnter, bufAtEnter, prevBuf, prevFrames>>

\* Serial.print(data); i++
PrintData ==
    /\ pc = "print_data"
    /\ out' = out \o data
    /\ i' = i + 1
    /\ pc' = "for_test"
    /\ UNCHANGED <<initResult, rxbuf, bus, pending, message, data>>
    /\ UNCHANGED hist

\* Serial.println("")
PrintNewline ==
    /\ pc = "println"
    /\ out' = out \o Println(StrEmpty)
    /\ pc' = AfterPrintln
    /\ UNCHANGED <<initResult, rxbuf, bus, pending, message, i, data>>
    /\ UNCHANGED hist

\* loop() returns; the Arduino core calls it again
LoopReturn ==
    /\ pc = "return"
    /\ pc' = "loop"
    /\ UNCHANGED <<initResult, rxbuf, bus, pending, message, i, data, out>>
    /\ UNCHANGED hist

Next ==
    \/ Arrive
    \/ CanbusInit
    \/ SetupReport
    \/ SetupBanner
    \/ SetupDelay
    \/ LoopEnter
    \/ CheckMessage
    \/ GetMessage
    \/ PrintIdLabel
    \/ PrintId
    \/ PrintSpace
    \/ PrintDataLabel
    \/ ForTest
    \/ Sprintf
    \/ PrintData
    \/ PrintNewline
    \/ LoopReturn

Spec == Init /\ [][Next]_vars

SpecFmt == InitFmt /\ [][Next]_vars

(***************************************************************************)
(* Vocabulary of the properties                                            *)
(***************************************************************************)
SetupPcs == {"init", "report", "banner", "delay"}
PrintPcs == {"print_id_label", "print_id", "print_space", "print_data_label",
             "for_test", "sprintf", "print_data", "println"}

IsPrefix(s, t) == Len(s) <= Len(t) /\ SubSeq(t, 1, Len(s)) = s

\* the characters written since this iteration began
Written == SubSeq(out, Len(outAtEnter) + 1, Len(out))

\* the complete lines of a character stream, without their CR LF
NewlinesOf(s) == {k \in 1..Len(s) : s[k] = "\n"}
RECURSIVE LinesOf(_)
LinesOf(s) ==
    IF NewlinesOf(s) = {} THEN <<>>
    ELSE LET k == CHOOSE k \in NewlinesOf(s) : \A m \in NewlinesOf(s) : k <= m
             e == IF k > 1 /\ s[k - 1] = "\r" THEN k - 2 ELSE k - 1
         IN  <<SubSeq(s, 1, e)>> \o LinesOf(SubSeq(s, k + 1, Len(s)))

CountOf(x, lines) == Cardinality({k \in 1..Len(lines) : lines[k] = x})

\* a data line is one that starts with "ID: "
IsDataLine(line) == IsPrefix(<<"I", "D", ":", " ">>, line)
HasDataText(s) == \E k \in 1..(Len(s) - 3) : SubSeq(s, k, k + 3) = <<"I", "D", ":", " ">>

\* upper-case hexadecimal, as the format of a line is stated
HexDigits == <<"0", "1", "2", "3", "4", "5", "6", "7", "8", "9", "A", "B", "C", "D", "E", "F">>
IsHexDigit(c) == \E v \in 0..15 : HexDigits[v + 1] = c
HexVal(c) == CHOOSE v \in 0..15 : HexDigits[v + 1] = c
RECURSIVE HexValue(_)
HexValue(s) == IF s = <<>> THEN 0 ELSE 16 * HexValue(SubSeq(s, 1, Len(s) - 1)) + HexVal(s[Len(s)])
TwoDigits(b) == <<HexDigits[(b \div 16) + 1], HexDigits[(b % 16) + 1]>>
RECURSIVE HexOf(_)
HexOf(n) == IF n < 16 THEN <<HexDigits[n + 1]>> ELSE HexOf(n \div 16) \o <<HexDigits[(n % 16) + 1]>>
RECURSIVE BytesText(_)
BytesText(bs) == IF bs = <<>> THEN <<>> ELSE TwoDigits(Head(bs)) \o BytesText(Tail(bs))

\* the line of a frame, without its newline
ExpectedLine(f) ==
    <<"I", "D", ":", " ">> \o HexOf(f.id) \o <<" ", "D", "a", "t", "a", ":", " ">>
        \o BytesText(f.data)
RECURSIVE ExpectedText(_)
ExpectedText(fs) ==
    IF fs = <<>> THEN <<>> ELSE ExpectedLine(Head(fs)) \o <<"\r", "\n">> \o ExpectedText(Tail(fs))

ResultLine == IF initResult = "ok" THEN StrInitOk ELSE StrInitFail
StartupText == ResultLine \o <<"\r", "\n">> \o StrBanner \o <<"\r", "\n">>

\* an iteration that received a frame has finished
FrameDone == pc = "return" /\ itFrames # <<>>

(***************************************************************************)
(* C1: if Canbus.init fails, neither mcp2515_check_message nor             *)
(* mcp2515_get_message is ever called afterwards.                          *)
(***************************************************************************)
C1_InertAfterInitFailure ==
    initResult = "fail" => (itChecks = 0 /\ itGets = 0)

(***************************************************************************)
(* C2: if Canbus.init fails, no data line ("ID: ... Data: ...") is ever    *)
(* written, whatever the controller has buffered or receives later.        *)
(***************************************************************************)
C2_NoDataAfterInitFailure ==
    initResult = "fail" => (deq = <<>> /\ ~HasDataText(out))

(***************************************************************************)
(* C3: in every iteration mcp2515_get_message is called only if the        *)
(* mcp2515_check_message call of that iteration returned true;             *)
(* mcp2515_check_message is called exactly once per iteration, and         *)
(* before mcp2515_get_message.                                             *)
(***************************************************************************)
C3_GetOnlyAfterTrueCheck ==
    /\ itChecks <= 1
    /\ itGets > 0 => (itChecks = 1 /\ pending)
    /\ pc = "get" => (itChecks = 1 /\ pending /\ itGets = 0)
    /\ pc = "return" => itChecks = 1
    /\ pc = "check" => (itChecks = 0 /\ itGets = 0)

C3_Witness == pc = "print_id_label" /\ itGets = 1 /\ itChecks = 1 /\ pending

(***************************************************************************)
(* C4: the line written for a frame of n bytes (n in 0..8) is "ID: ", the  *)
(* identifier in upper-case hexadecimal without prefix or zero padding,    *)
(* " Data: ", the n bytes as two zero-padded upper-case hex digits each,   *)
(* in payload order without separators (2n characters), and a newline;     *)
(* for n = 0 the newline follows "Data: " immediately.                     *)
(***************************************************************************)
LineFormatOk(line, f) ==
    LET n == f.length
        spaces == {k \in 5..Len(line) : line[k] = " "}
        sp == CHOOSE k \in spaces : \A m \in spaces : k <= m
        idText == SubSeq(line, 5, sp - 1)
    IN  /\ IsPrefix(<<"I", "D", ":", " ">>, line)
        /\ spaces # {}
        /\ idText # <<>>
        /\ \A k \in 1..Len(idText) : IsHexDigit(idText[k])
        /\ Len(idText) > 1 => idText[1] # "0"
        /\ HexValue(idText) = f.id
        /\ SubSeq(line, sp, sp + 6) = <<" ", "D", "a", "t", "a", ":", " ">>
        /\ Len(line) = sp + 6 + 2 * n + 2
        /\ \A k \in 1..n : SubSeq(line, sp + 5 + 2 * k, sp + 6 + 2 * k) = TwoDigits(f.data[k])
        /\ SubSeq(line, Len(line) - 1, Len(line)) = <<"\r", "\n">>

C4_LineFormat ==
    FrameDone => (itFrames[1].length \in 0..8 /\ LineFormatOk(Written, itFrames[1]))

C4_Witness ==
    /\ FrameDone
    /\ itFrames[1].length = 8
    /\ itFrames[1].id = 10
    /\ \E k \in 1..8 : itFrames[1].data[k] < 16
    /\ \E k \in 1..8 : itFrames[1].data[k] > 160

(***************************************************************************)
(* C5: splitting the Data segment of the line of a frame into pairs of hex *)
(* digits and parsing each pair gives back the payload: same bytes, same   *)
(* order, same length.                                                     *)
(***************************************************************************)
DataSegment(line) ==
    LET colons == {k \in 1..Len(line) : line[k] = ":"}
        c == CHOOSE k \in colons : \A m \in colons : m <= k
    IN  IF colons = {} THEN <<"?">> ELSE SubSeq(line, c + 2, Len(line) - 2)

ParsePairs(seg) ==
    IF Len(seg) % 2 = 0 /\ \A k \in 1..Len(seg) : IsHexDigit(seg[k])
    THEN [k \in 1..(Len(seg) \div 2) |-> 16 * HexVal(seg[2 * k - 1]) + HexVal(seg[2 * k])]
    ELSE <<-1>>

C5_RoundTrip ==
    FrameDone => ParsePairs(DataSegment(Written)) = itFrames[1].data

C5_Witness ==
    /\ FrameDone
    /\ itFrames[1].id = 2015
    /\ itFrames[1].data = <<2, 1, 12>>
    /\ DataSegment(Written) = <<"0", "2", "0", "1", "0", "C">>

(***************************************************************************)
(* C6: at start-up the output receives exactly one line with the result of *)
(* the initialisation ("CAN Init ok" or "Can't init CAN"), then exactly    *)
(* one line "CAN Read - Test receiving of CAN Bus message"; both precede   *)
(* the first mcp2515_check_message call and every data line.               *)
(***************************************************************************)
C6_StartupLines ==
    /\ pc \in {"init", "report"} => out = <<>>
    /\ pc = "banner" => out = ResultLine \o <<"\r", "\n">>
    /\ pc \in SetupPcs => (itChecks = 0 /\ itGets = 0 /\ deq = <<>> /\ ~HasDataText(out))
    /\ pc \notin {"init", "report", "banner"} =>
          /\ IsPrefix(StartupText, out)
          /\ CountOf(StrInitOk, LinesOf(out)) = (IF initResult = "ok" THEN 1 ELSE 0)
          /\ CountOf(StrInitFail, LinesOf(out)) = (IF initResult = "fail" THEN 1 ELSE 0)
          /\ CountOf(StrBanner, LinesOf(out)) = 1
    /\ (itChecks > 0 \/ HasDataText(out)) => (pc \notin SetupPcs /\ IsPrefix(StartupText, out))

C6_Witness ==
    /\ initResult = "ok"
    /\ pc = "return"
    /\ Len(deq) = 2
    /\ Len(LinesOf(out)) = 4

(***************************************************************************)
(* C7: an iteration calls mcp2515_get_message at most once and writes      *)
(* exactly one data line per call that yields a frame; when two frames are *)
(* buffered as an iteration begins, only the first is written in that      *)
(* iteration and the second in the following one.                          *)
(***************************************************************************)
C7_OneFramePerIteration ==
    /\ itGets <= 1
    /\ Len(itFrames) <= itGets
    /\ pc = "return" =>
          /\ Len(LinesOf(Written)) = Len(itFrames)
          /\ \A k \in 1..Len(itFrames) : LinesOf(Written)[k] = ExpectedLine(itFrames[k])
          /\ Len(bufAtEnter) >= 2 => itFrames = <<bufAtEnter[1]>>
          /\ Len(prevBuf) >= 2 => (prevFrames = <<prevBuf[1]>> /\ itFrames = <<prevBuf[2]>>)

C7_Witness ==
    /\ pc = "return"
    /\ Len(prevBuf) = 2
    /\ prevBuf[1] # prevBuf[2]
    /\ LinesOf(Written) = <<ExpectedLine(prevBuf[2])>>

(***************************************************************************)
(* C8: an iteration in which mcp2515_check_message returned true but       *)
(* mcp2515_get_message yielded no frame writes nothing and the loop goes   *)
(* on to the next iteration; an iteration in which                         *)
(* mcp2515_check_message returned false writes nothing either.             *)
(***************************************************************************)
C8_SilentWithoutFrame ==
    /\ itFrames = <<>> => pc \notin PrintPcs
    /\ (itFrames = <<>> /\ pc \in {"check", "get", "return"}) => out = outAtEnter
    /\ (pc = "return" /\ ~pending) => (itGets = 0 /\ out = outAtEnter)
    /\ (pc = "return" /\ itFrames = <<>>) => (out = outAtEnter /\ ENABLED LoopReturn)

C8_Witness ==
    /\ pc = "return"
    /\ pending
    /\ itGets = 1
    /\ itFrames = <<>>
    /\ out = outAtEnter
    /\ deq # <<>>

(***************************************************************************)
(* C9: after a successful initialisation the data lines of the output      *)
(* correspond one to one, in order, to the frames dequeued by              *)
(* mcp2515_get_message: none lost, duplicated or reordered; a line is      *)
(* complete, through its newline, before the next mcp2515_check_message    *)
(* call, and is made of the frame dequeued in that iteration only.         *)
(***************************************************************************)
C9_LinesMatchDequeued ==
    (initResult = "ok" /\ pc \notin SetupPcs) =>
        IF pc \in PrintPcs
        THEN /\ deq # <<>>
             /\ itFrames = <<deq[Len(deq)]>>
             /\ IsPrefix(StartupText \o ExpectedText(SubSeq(deq, 1, Len(deq) - 1)), out)
             /\ IsPrefix(out, StartupText \o ExpectedText(deq))
             /\ out # StartupText \o ExpectedText(deq)
        ELSE out = StartupText \o ExpectedText(deq)

C9_Witness ==
    /\ initResult = "ok"
    /\ pc = "check"
    /\ Len(deq) = 2
    /\ deq[1].id # deq[2].id
    /\ deq[1].length # deq[2].length

(***************************************************************************)
(* C10: while a frame is formatted the payload indices 0, 1, ...,          *)
(* header.length - 1 are read once each, in increasing order, and no other *)
(* index; for header.length in 0..8 every index read lies in 0..7. The     *)
(* loop does not clamp: all header.length indices are read.                *)
(***************************************************************************)
C10_ReadIndices ==
    /\ \A k \in 1..Len(reads) : reads[k] = k - 1
    /\ \A k \in 1..Len(reads) : reads[k] \in 0..7
    /\ itFrames = <<>> => reads = <<>>
    /\ pc = "for_test" => Len(reads) = i
    /\ (pc = "println" \/ FrameDone) => Len(reads) = itFrames[1].length

C10_Witness ==
    /\ pc = "println"
    /\ itFrames # <<>>
    /\ itFrames[1].length = 8
    /\ reads = <<0, 1, 2, 3, 4, 5, 6, 7>>

=============================================================================
